---------------------------- MODULE Spec2Model ----------------------------
(***************************************************************************)
(* Model of EMO_Harmonizer/inference_user.py: the conversion of a melody   *)
(* MIDI file into the EMOPIA melody event sequence.                        *)
(*                                                                         *)
(*   load_melody_notes -> estimate_last_bar -> quantize_notes              *)
(*                     -> build_melody_events -> write_events_txt          *)
(*                                                                         *)
(* Strings that the code inspects (the key, the emotion tag) are sequences *)
(* of pieces, so that strip() and startswith() are computed, not assumed.  *)
(* An event "Beat_3" is the pair <<"Beat", 3>>, "Bar_None" is <<"Bar">>.   *)
(***************************************************************************)
EXTENDS Integers, Sequences, FiniteSets, TLC

VARIABLES
    pc,         \* position in main() / which call is pending
    midi,       \* the parsed miditoolkit.MidiFile (mutated in place by load)
    key,        \* args.key
    emotion,    \* args.emotion
    notes,      \* the melody notes returned by load_melody_notes
    last_bar,   \* result of estimate_last_bar
    q_notes,    \* result of quantize_notes
    events,     \* result of build_melody_events
    skipped,    \* history: times build_melody_events took its skip branch
    truncated,  \* history: notes shortened by the monophony pass of load
    out_file,   \* the output file: NoFile or the lines written
    err,        \* the exception that ended the run, or NoError
    out_path,   \* args.output_txt, as path components
    tick,       \* argument of a quantize_tick call
    q_tick      \* its result

vars == <<pc, midi, key, emotion, notes, last_bar, q_notes, events, skipped,
          truncated, out_file, err, out_path, tick, q_tick>>

---------------------------------------------------------------------------
(* Timing resolution                                                       *)

BEAT_RESOL == 480
BAR_RESOL == BEAT_RESOL * 4
TICK_RESOL == BEAT_RESOL \div 4

---------------------------------------------------------------------------
(* Bounds of the model                                                     *)

\* quantize_tick is applied to every tick of -MinTick .. MaxTick
MinTick == 3
MaxTick == 500
\* longest note list given to quantize_notes / build_melody_events alone
MaxNotes == 2
\* longest melody track of a MIDI file in an end-to-end run
MaxMelody == 3
\* last_bar ranges over 0 .. MaxBar when quantize_notes is called alone
MaxBar == 2

---------------------------------------------------------------------------
(* Values that stand for Python's None / no file / no exception            *)

NoFile == <<"no file">>
NoError == [kind |-> "none"]
NoMidi == [ticks_per_beat |-> BEAT_RESOL, instruments |-> <<>>]

Max(a, b) == IF a >= b THEN a ELSE b

RECURSIVE SeqMax(_)
SeqMax(s) ==
    IF Len(s) = 1 THEN s[1] ELSE Max(s[1], SeqMax(Tail(s)))

---------------------------------------------------------------------------
(* int(round(num / den)) for den > 0: Python 3 rounds a half to the even   *)
(* integer.  The quotient is exact for every tick a MIDI file can hold.    *)

\* a half always rounded up
RoundHalfUp(num, den) ==
    (2 * num + den) \div (2 * den)

RoundHalfEven(num, den) ==
    LET q == num \div den
        r == num % den
    IN  IF 2 * r < den THEN q
        ELSE IF 2 * r > den THEN q + 1
        ELSE IF q % 2 = 0 THEN q ELSE q + 1

\* the tick truncated to the grid instead of rounded
quantize_tick_floor(t) ==
    LET t0 == IF t < 0 THEN 0 ELSE t
    IN  (t0 \div TICK_RESOL) * TICK_RESOL

\* a tick half-way between two grid points always rounded up
quantize_tick_half_up(t) ==
    LET t0 == IF t < 0 THEN 0 ELSE t
    IN  RoundHalfUp(t0, TICK_RESOL) * TICK_RESOL

quantize_tick(t) ==
    LET t0 == IF t < 0 THEN 0 ELSE t
        q  == RoundHalfEven(t0, TICK_RESOL) * TICK_RESOL
    IN  IF q < 0 THEN 0 ELSE q

---------------------------------------------------------------------------
(* sorted(xs, key=...) : Python's sort is stable.  Order(K, n) is the      *)
(* order in which the first n elements appear once sorted by their keys K. *)

Front(s) == SubSeq(s, 1, Len(s) - 1)

\* the two components of the sort key compared in the wrong order
KeyByPitchFirst(a, b) ==
    a[2] < b[2] \/ (a[2] = b[2] /\ a[1] <= b[1])

KeyLE(a, b) ==
    a[1] < b[1] \/ (a[1] = b[1] /\ a[2] <= b[2])

RECURSIVE InsertSorted(_, _, _)
InsertSorted(p, i, K) ==
    IF p = <<>> THEN <<i>>
    ELSE IF KeyLE(K[p[Len(p)]], K[i]) THEN Append(p, i)
    ELSE Append(InsertSorted(Front(p), i, K), p[Len(p)])

RECURSIVE Order(_, _)
Order(K, n) ==
    IF n = 0 THEN <<>> ELSE InsertSorted(Order(K, n - 1), n, K)

SortedBy(s, K) ==
    LET p == Order(K, Len(s))
    IN  [i \in 1..Len(s) |-> s[p[i]]]

---------------------------------------------------------------------------
(* _normalize_ticks_per_beat: every note time becomes                      *)
(* int(round(t * (480 / tpb))).                                            *)

ScaleTick(t, tpb) == RoundHalfEven(t * BEAT_RESOL, tpb)

ScaleNote(n, tpb) ==
    [start |-> ScaleTick(n.start, tpb), end |-> ScaleTick(n.end, tpb),
     pitch |-> n.pitch]

ScaleTrack(tr, tpb) ==
    [is_drum |-> tr.is_drum,
     notes   |-> [i \in 1..Len(tr.notes) |-> ScaleNote(tr.notes[i], tpb)]]

normalize_ticks_per_beat(m) ==
    IF m.ticks_per_beat = BEAT_RESOL THEN m
    ELSE [ticks_per_beat |-> BEAT_RESOL,
          instruments |-> [i \in 1..Len(m.instruments) |->
                              ScaleTrack(m.instruments[i], m.ticks_per_beat)]]

---------------------------------------------------------------------------
(* load_melody_notes                                                       *)

\* the first non-drum track, else the first track
ChooseTrack(ins) ==
    IF \E i \in 1..Len(ins) : ~ins[i].is_drum
    THEN CHOOSE i \in 1..Len(ins) :
            /\ ~ins[i].is_drum
            /\ \A j \in 1..(i - 1) : ins[j].is_drum
    ELSE 1

NoteKeys(ns) == [i \in 1..Len(ns) |-> <<ns[i].start, ns[i].pitch>>]

\* the forward pass stopping one pair early
RECURSIVE MonoPassShort(_, _)
MonoPassShort(ns, i) ==
    IF i >= Len(ns) - 1 THEN ns
    ELSE MonoPassShort(
            IF ns[i].end > ns[i + 1].start
            THEN [ns EXCEPT ![i].end = ns[i + 1].start] ELSE ns,
            i + 1)

\* the forward pass "for i in range(len(notes) - 1)", from position i on
RECURSIVE MonoPass(_, _)
MonoPass(ns, i) ==
    IF i >= Len(ns) THEN ns
    ELSE MonoPass(
            IF ns[i].end > ns[i + 1].start
            THEN [ns EXCEPT ![i].end = ns[i + 1].start] ELSE ns,
            i + 1)

\* the result of load_melody_notes(midi): the exception raised, or the
\* returned notes together with the MidiFile as the call leaves it (the
\* note objects of the chosen track are the ones truncated)
load_melody_notes(m) ==
    LET m1 == normalize_ticks_per_beat(m)
        ins == m1.instruments
    IN  IF ins = <<>>
        THEN [ok |-> FALSE, midi |-> m1, notes |-> <<>>, truncated |-> 0,
              err |-> [kind |-> "ValueError", what |-> "No instruments found"]]
        ELSE
        LET ti     == ChooseTrack(ins)
            raw    == ins[ti].notes
            p      == Order(NoteKeys(raw), Len(raw))
            sorted == [i \in 1..Len(raw) |-> raw[p[i]]]
        IN  IF sorted = <<>>
            THEN [ok |-> FALSE, midi |-> m1, notes |-> <<>>, truncated |-> 0,
                  err |-> [kind |-> "ValueError", what |-> "No notes found"]]
            ELSE
            LET mono == MonoPass(sorted, 1)
                back == [k \in 1..Len(raw) |->
                            mono[CHOOSE i \in 1..Len(raw) : p[i] = k]]
            IN  [ok |-> TRUE,
                 midi |-> [m1 EXCEPT !.instruments[ti].notes = back],
                 notes |-> mono, err |-> NoError,
                 truncated |-> Cardinality({i \in 1..Len(raw) :
                                              mono[i].end # sorted[i].end})]

---------------------------------------------------------------------------
(* quantize_notes                                                          *)

\* one iteration without the clamp to the end of the song
QuantizeOneNoClip(n, song_end_tick) ==
    LET q_start == quantize_tick(n.start)
        q_end   == quantize_tick(n.end)
        dur     == Max(TICK_RESOL, q_end - q_start)
    IN  IF q_start >= song_end_tick THEN <<>>
        ELSE << <<q_start, dur, n.pitch>> >>

\* one iteration of the loop: the tuples it appends (none or one)
QuantizeOne(n, song_end_tick) ==
    LET q_start == quantize_tick(n.start)
        q_end   == quantize_tick(n.end)
        dur     == Max(TICK_RESOL, q_end - q_start)
    IN  IF q_start >= song_end_tick THEN <<>>
        ELSE IF q_start + dur > song_end_tick
        THEN IF song_end_tick - q_start <= 0 THEN <<>>
             ELSE << <<q_start, song_end_tick - q_start, n.pitch>> >>
        ELSE << <<q_start, dur, n.pitch>> >>

RECURSIVE QuantizeLoop(_, _)
QuantizeLoop(ns, song_end_tick) ==
    IF ns = <<>> THEN <<>>
    ELSE QuantizeOne(ns[1], song_end_tick)
            \o QuantizeLoop(Tail(ns), song_end_tick)

QuantKeys(q) == [i \in 1..Len(q) |-> <<q[i][1], q[i][3]>>]

\* the song taken to end one bar early
quantize_notes_bar_early(ns, lb) ==
    LET quantized == QuantizeLoop(ns, (lb - 1) * BAR_RESOL)
    IN  SortedBy(quantized, QuantKeys(quantized))

quantize_notes(ns, lb) ==
    LET quantized == QuantizeLoop(ns, lb * BAR_RESOL)
    IN  SortedBy(quantized, QuantKeys(quantized))

---------------------------------------------------------------------------
(* estimate_last_bar                                                       *)

estimate_last_bar(ns) ==
    LET last_end == SeqMax([i \in 1..Len(ns) |-> ns[i].end])
    IN  Max(1, (last_end + BAR_RESOL - 1) \div BAR_RESOL)

---------------------------------------------------------------------------
(* representations/convert_key.py: the recognised keys and the mapping of  *)
(* a pitch to (octave, roman degree) relative to the tonic of the key.     *)

MAJOR_KEY ==
    << <<"C">>, <<"C", "#">>, <<"D">>, <<"D", "#">>, <<"E">>, <<"F">>,
       <<"F", "#">>, <<"G">>, <<"G", "#">>, <<"A">>, <<"A", "#">>, <<"B">> >>

MINOR_KEY ==
    << <<"c">>, <<"c", "#">>, <<"d">>, <<"d", "#">>, <<"e">>, <<"f">>,
       <<"f", "#">>, <<"g">>, <<"g", "#">>, <<"a">>, <<"a", "#">>, <<"b">> >>

IDX_TO_ROMAN ==
    <<"I", "I#", "II", "II#", "III", "IV", "IV#", "V", "V#", "VI", "VI#", "VII">>

Range(s) == {s[i] : i \in 1..Len(s)}

IndexOf(s, x) == CHOOSE i \in 1..Len(s) : s[i] = x

pitch2degree(k, pitch) ==
    LET tonic  == IF k \in Range(MAJOR_KEY) THEN IndexOf(MAJOR_KEY, k) - 1
                  ELSE IndexOf(MINOR_KEY, k) - 1
        degree == ((pitch % 12) + 12 - tonic) % 12
        octave == (pitch - degree) \div 12
    IN  <<octave, IDX_TO_ROMAN[degree + 1]>>

---------------------------------------------------------------------------
(* str.strip() on a string given as its sequence of characters/pieces      *)

Whitespace == {" ", "\t", "\n"}

RECURSIVE LStrip(_)
LStrip(s) ==
    IF s # <<>> /\ s[1] \in Whitespace THEN LStrip(Tail(s)) ELSE s

RECURSIVE RStrip(_)
RStrip(s) ==
    IF s # <<>> /\ s[Len(s)] \in Whitespace THEN RStrip(Front(s)) ELSE s

Strip(s) == RStrip(LStrip(s))

---------------------------------------------------------------------------
(* build_melody_events                                                     *)

\* the four tokens of the note at idx, which starts in bar bar_idx
NoteGroup(q, k, bar_idx, idx) ==
    LET od == pitch2degree(k, q[idx][3])
    IN  << <<"Beat", (q[idx][1] - bar_idx * BAR_RESOL) \div TICK_RESOL>>,
           <<"Note_Octave", od[1]>>,
           <<"Note_Degree", od[2]>>,
           <<"Note_Duration", q[idx][2]>> >>

\* the inner loop leaving the bar one tick late: "if start > bar_end: break"
RECURSIVE BarWhileLate(_, _, _, _)
BarWhileLate(q, k, bar_idx, st) ==
    LET bar_start == bar_idx * BAR_RESOL
        bar_end   == bar_start + BAR_RESOL
    IN  IF st.idx > Len(q) \/ q[st.idx][1] > bar_end THEN st
        ELSE IF ~(bar_start <= q[st.idx][1] /\ q[st.idx][1] < bar_end)
        THEN BarWhileLate(q, k, bar_idx,
                [st EXCEPT !.idx = @ + 1, !.skipped = @ + 1])
        ELSE BarWhileLate(q, k, bar_idx,
                [st EXCEPT !.idx = @ + 1,
                           !.events = @ \o NoteGroup(q, k, bar_idx, st.idx)])

\* the inner "while idx < len(quantized_notes)" of bar bar_idx;
\* st = [idx, events, skipped]; idx counts from 1
RECURSIVE BarWhile(_, _, _, _)
BarWhile(q, k, bar_idx, st) ==
    LET bar_start == bar_idx * BAR_RESOL
        bar_end   == bar_start + BAR_RESOL
    IN  IF st.idx > Len(q) THEN st
        ELSE
        LET start == q[st.idx][1]
        IN  IF start >= bar_end THEN st
            ELSE IF ~(bar_start <= start /\ start < bar_end)
            THEN BarWhile(q, k, bar_idx,
                    [st EXCEPT !.idx = @ + 1, !.skipped = @ + 1])
            ELSE BarWhile(q, k, bar_idx,
                    [st EXCEPT !.idx = @ + 1,
                               !.events = @ \o NoteGroup(q, k, bar_idx, st.idx)])

\* "for bar_idx in range(n_bars)", from bar bar_idx on
RECURSIVE BarFor(_, _, _, _, _)
BarFor(q, k, bar_idx, n_bars, st) ==
    IF bar_idx >= n_bars THEN st
    ELSE BarFor(q, k, bar_idx + 1, n_bars,
            BarWhile(q, k, bar_idx,
                [st EXCEPT !.events = Append(@, <<"Bar_None">>)]))

\* the number of bars rounded down
NBarsFloor(q) ==
    LET last_tick == SeqMax([i \in 1..Len(q) |-> q[i][1] + q[i][2]])
    IN  Max(1, last_tick \div BAR_RESOL)

NBars(q) ==
    LET last_tick == SeqMax([i \in 1..Len(q) |-> q[i][1] + q[i][2]])
    IN  Max(1, (last_tick + BAR_RESOL - 1) \div BAR_RESOL)

NoEmotion == <<"None">>

EmotionToken(e) ==
    IF e # <<>> /\ e[1] = "Emotion_" THEN e ELSE <<"Emotion_">> \o e

\* the tokens before the first bar
EventsHead(k, emo, add_track_tokens) ==
    (IF emo # NoEmotion THEN << <<"Emotion", EmotionToken(emo)>> >> ELSE <<>>)
    \o << <<"Key", k>> >>
    \o (IF add_track_tokens THEN << <<"Track_Melody">> >> ELSE <<>>)

UnsupportedKey(k) ==
    [ok |-> FALSE, events |-> <<>>, skipped |-> 0,
     err |-> [kind |-> "ValueError", what |-> "Unsupported key",
              key |-> k, use_one_of |-> MAJOR_KEY \o MINOR_KEY]]

\* the key checked only after the early return for an empty note list
build_melody_events_late_check(q, rawkey, emo, add_track_tokens, add_eos) ==
    LET k    == Strip(rawkey)
        head == EventsHead(k, emo, add_track_tokens)
        eos  == IF add_eos THEN << <<"EOS_None">> >> ELSE <<>>
    IN  IF q = <<>>
        THEN [ok |-> TRUE, events |-> head \o eos, skipped |-> 0,
              err |-> NoError]
        ELSE IF k \notin Range(MAJOR_KEY) /\ k \notin Range(MINOR_KEY)
        THEN UnsupportedKey(k)
        ELSE
        LET st == BarFor(q, k, 0, NBars(q),
                         [idx |-> 1, events |-> head, skipped |-> 0])
        IN  [ok |-> TRUE, events |-> st.events \o eos,
             skipped |-> st.skipped, err |-> NoError]

\* the result of build_melody_events: the exception raised, or the events
\* (and how often the skip branch ran)
build_melody_events(q, rawkey, emo, add_track_tokens, add_eos) ==
    LET k == Strip(rawkey)
    IN  IF k \notin Range(MAJOR_KEY) /\ k \notin Range(MINOR_KEY)
        THEN UnsupportedKey(k)
        ELSE
        LET head == EventsHead(k, emo, add_track_tokens)
            eos  == IF add_eos THEN << <<"EOS_None">> >> ELSE <<>>
        IN  IF q = <<>>
            THEN [ok |-> TRUE, events |-> head \o eos, skipped |-> 0,
                  err |-> NoError]
            ELSE
            LET st == BarFor(q, k, 0, NBars(q),
                             [idx |-> 1, events |-> head, skipped |-> 0])
            IN  [ok |-> TRUE, events |-> st.events \o eos,
                 skipped |-> st.skipped, err |-> NoError]

---------------------------------------------------------------------------
(* write_events_txt                                                        *)

\* str(ev).strip(): only an emotion tag can carry surrounding whitespace
StripLine(ev) ==
    IF ev[1] = "Emotion" THEN <<"Emotion", Strip(ev[2])>> ELSE ev

\* os.path.dirname of a path given as its components
Dirname(path) == Front(path)

\* os.makedirs("") raises FileNotFoundError: a bare file name has no
\* directory part
write_events_txt(evs, path) ==
    IF Dirname(path) = <<>>
    THEN [ok |-> FALSE, file |-> NoFile,
          err |-> [kind |-> "FileNotFoundError", what |-> "makedirs"]]
    ELSE [ok |-> TRUE, file |-> [i \in 1..Len(evs) |-> StripLine(evs[i])],
          err |-> NoError]

---------------------------------------------------------------------------
(* Inputs                                                                  *)

Pitches == {60, 62}

\* all sequences over S of length 0 .. n
SeqsUpTo(S, n) == UNION {[1..k -> S] : k \in 0..n}

\* ticks given to quantize_notes alone: a negative tick, a tick half-way
\* between two grid points, a tick that rounds up to a bar line, and the
\* two ticks of the clipping scenario
QTicks == {-50, 60, 1900, 3800, 4200}

QNotes == [start : QTicks, end : QTicks, pitch : Pitches]

\* grid-aligned notes (start, duration, pitch)
GridStarts == {0, TICK_RESOL, BAR_RESOL - TICK_RESOL, BAR_RESOL,
               2 * BAR_RESOL + 15 * TICK_RESOL}
GridDurs == {TICK_RESOL, 2 * TICK_RESOL, BAR_RESOL}

GridNotes == GridStarts \X GridDurs \X Pitches

AsNote(q) == [start |-> q[1], end |-> q[1] + q[2], pitch |-> q[3]]

AsNotes(Q) == [i \in 1..Len(Q) |-> AsNote(Q[i])]

AsQuantized(ns) ==
    [i \in 1..Len(ns) |-> <<ns[i].start, ns[i].end - ns[i].start, ns[i].pitch>>]

SortedByStart(Q) ==
    \A i \in 1..(Len(Q) - 1) : Q[i][1] <= Q[i + 1][1]

SortedByStartPitch(Q) ==
    \A i \in 1..(Len(Q) - 1) :
        \/ Q[i][1] < Q[i + 1][1]
        \/ Q[i][1] = Q[i + 1][1] /\ Q[i][3] <= Q[i + 1][3]

InBounds(Q, lb) ==
    \A i \in 1..Len(Q) : Q[i][1] + Q[i][2] <= lb * BAR_RESOL

\* notes of a MIDI file: 0 <= start <= end
MidiTicks == {0, 200, 1900}

MidiNotes ==
    {n \in [start : MidiTicks, end : MidiTicks, pitch : Pitches] :
        n.start <= n.end}

MelodyLists == SeqsUpTo(MidiNotes, MaxMelody)

DrumLead == [is_drum |-> TRUE,
             notes |-> << [start |-> 0, end |-> 480, pitch |-> 36] >>]
MelodicLead == [is_drum |-> FALSE,
                notes |-> << [start |-> 0, end |-> 960, pitch |-> 64] >>]

\* no track; one track, drum or not; a leading track and a melodic track
InstrumentLists ==
    {<<>>}
    \cup {<<[is_drum |-> d, notes |-> nl]>> : d \in BOOLEAN, nl \in MelodyLists}
    \cup {<<lead, [is_drum |-> FALSE, notes |-> nl]>> :
            lead \in {DrumLead, MelodicLead}, nl \in MelodyLists}

TicksPerBeat == {BEAT_RESOL, 2 * BEAT_RESOL}

MidiFiles == [ticks_per_beat : TicksPerBeat, instruments : InstrumentLists]

KeyArgs == {<<"C">>, <<" ", "f", "#", " ">>, <<"Z">>, <<>>}
EmotionArgs == {NoEmotion, <<"Positive">>, <<"Emotion_", "Q1">>, <<"Q3", " ">>}
PathArgs == {<<"out", "melody.txt">>, <<"melody.txt">>}

DefaultArgs == [key |-> <<"C">>, emotion |-> NoEmotion,
                out_path |-> <<"out", "melody.txt">>]

\* files on which every combination of arguments is run
FewMidiFiles ==
    {m \in MidiFiles :
        /\ m.ticks_per_beat = BEAT_RESOL
        /\ Len(m.instruments) <= 1
        /\ \A i \in 1..Len(m.instruments) :
              /\ ~m.instruments[i].is_drum
              /\ Len(m.instruments[i].notes) <= 1}

MainInputs ==
    {<<m, DefaultArgs>> : m \in MidiFiles}
    \cup {<<m, a>> : m \in FewMidiFiles,
                    a \in [key : KeyArgs, emotion : EmotionArgs,
                           out_path : PathArgs]}

---------------------------------------------------------------------------
(* The steps of main(), each the call of one function                      *)

LoadMelodyNotes ==
    /\ pc = "load"
    /\ LET r == load_melody_notes(midi)
       IN  /\ midi' = r.midi
           /\ notes' = r.notes
           /\ truncated' = r.truncated
           /\ err' = r.err
           /\ pc' = IF r.ok THEN "estimate" ELSE "error"
    /\ UNCHANGED <<key, emotion, last_bar, q_notes, events, skipped,
                   out_file, out_path, tick, q_tick>>

EstimateLastBar ==
    /\ pc = "estimate"
    /\ last_bar' = estimate_last_bar(notes)
    /\ pc' = "quantize"
    /\ UNCHANGED <<midi, key, emotion, notes, q_notes, events, skipped,
                   truncated, out_file, err, out_path, tick, q_tick>>

QuantizeNotes ==
    /\ pc = "quantize"
    /\ q_notes' = quantize_notes(notes, last_bar)
    /\ pc' = "build"
    /\ UNCHANGED <<midi, key, emotion, notes, last_bar, events, skipped,
                   truncated, out_file, err, out_path, tick, q_tick>>

BuildEventsWith(add_track_tokens, add_eos) ==
    /\ pc = "build"
    /\ LET r == build_melody_events(q_notes, key, emotion,
                                    add_track_tokens, add_eos)
       IN  /\ events' = r.events
           /\ skipped' = r.skipped
           /\ err' = r.err
           /\ pc' = IF r.ok THEN "write" ELSE "error"
    /\ UNCHANGED <<midi, key, emotion, notes, last_bar, q_notes, truncated,
                   out_file, out_path, tick, q_tick>>

\* main() leaves add_track_tokens and add_eos at their defaults
BuildMelodyEvents == BuildEventsWith(TRUE, TRUE)

\* a direct call may set the two flags
BuildMelodyEventsCall ==
    \E add_track_tokens \in BOOLEAN, add_eos \in BOOLEAN :
        BuildEventsWith(add_track_tokens, add_eos)

WriteEventsTxt ==
    /\ pc = "write"
    /\ LET r == write_events_txt(events, out_path)
       IN  /\ out_file' = r.file
           /\ err' = r.err
           /\ pc' = IF r.ok THEN "done" ELSE "error"
    /\ UNCHANGED <<midi, key, emotion, notes, last_bar, q_notes, events,
                   skipped, truncated, out_path, tick, q_tick>>

QuantizeTick ==
    /\ pc = "quantize_tick"
    /\ q_tick' = quantize_tick(tick)
    /\ pc' = "quantize_tick_done"
    /\ UNCHANGED <<midi, key, emotion, notes, last_bar, q_notes, events,
                   skipped, truncated, out_file, err, out_path, tick>>

---------------------------------------------------------------------------
(* Specifications                                                          *)

\* everything a run has not produced yet
Blank ==
    /\ events = <<>>
    /\ skipped = 0
    /\ truncated = 0
    /\ out_file = NoFile
    /\ err = NoError
    /\ tick = 0
    /\ q_tick = 0

\* Spec: one run of main() on a MIDI file and command-line arguments
Init ==
    /\ pc = "load"
    /\ \E inp \in MainInputs :
          /\ midi = inp[1]
          /\ key = inp[2].key
          /\ emotion = inp[2].emotion
          /\ out_path = inp[2].out_path
    /\ notes = <<>>
    /\ last_bar = 0
    /\ q_notes = <<>>
    /\ Blank

Next ==
    \/ LoadMelodyNotes
    \/ EstimateLastBar
    \/ QuantizeNotes
    \/ BuildMelodyEvents
    \/ WriteEventsTxt

Spec == Init /\ [][Next]_vars

\* SpecQuantize: quantize_notes called on any note list and any last_bar
InitQuantize ==
    /\ pc = "quantize"
    /\ midi = NoMidi
    /\ key = DefaultArgs.key
    /\ emotion = DefaultArgs.emotion
    /\ out_path = DefaultArgs.out_path
    /\ notes \in SeqsUpTo(QNotes, MaxNotes)
    /\ last_bar \in 0..MaxBar
    /\ q_notes = <<>>
    /\ Blank

NextQuantize == QuantizeNotes

SpecQuantize == InitQuantize /\ [][NextQuantize]_vars

\* SpecIdem: quantize_notes called on the notes of a list that is already
\* quantized, sorted by (start, pitch) and within last_bar bars
InitIdem ==
    /\ pc = "quantize"
    /\ midi = NoMidi
    /\ key = DefaultArgs.key
    /\ emotion = DefaultArgs.emotion
    /\ out_path = DefaultArgs.out_path
    /\ last_bar \in 1..(MaxBar + 1)
    /\ \E Q \in SeqsUpTo(GridNotes, MaxNotes) :
          /\ SortedByStartPitch(Q)
          /\ InBounds(Q, last_bar)
          /\ notes = AsNotes(Q)
    /\ q_notes = <<>>
    /\ Blank

SpecIdem == InitIdem /\ [][NextQuantize]_vars

\* SpecEncode: build_melody_events called on any quantized list sorted by
\* start tick
InitEncode ==
    /\ pc = "build"
    /\ midi = NoMidi
    /\ key \in KeyArgs
    /\ emotion \in EmotionArgs
    /\ out_path = DefaultArgs.out_path
    /\ notes = <<>>
    /\ last_bar = 0
    /\ Blank
    /\ q_notes \in {Q \in SeqsUpTo(GridNotes, MaxNotes) : SortedByStart(Q)}

NextEncode == BuildMelodyEventsCall

SpecEncode == InitEncode /\ [][NextEncode]_vars

\* SpecTick: quantize_tick called on any tick, and quantize_notes called on
\* one note that starts or ends on any tick, in a song long enough to hold it
TickRange == (0 - MinTick)..MaxTick

TickNotes ==
    {[start |-> t, end |-> t + d, pitch |-> 60] :
        t \in TickRange, d \in {0, 60, 180, 240}}
    \cup {[start |-> 60, end |-> t, pitch |-> 60] : t \in TickRange}

InitTick ==
    /\ midi = NoMidi
    /\ key = DefaultArgs.key
    /\ emotion = DefaultArgs.emotion
    /\ out_path = DefaultArgs.out_path
    /\ q_notes = <<>>
    /\ events = <<>>
    /\ skipped = 0
    /\ truncated = 0
    /\ out_file = NoFile
    /\ err = NoError
    /\ q_tick = 0
    /\ \/ /\ pc = "quantize_tick"
          /\ tick \in TickRange
          /\ notes = <<>>
          /\ last_bar = 0
       \/ /\ pc = "quantize"
          /\ tick = 0
          /\ notes \in {<<n>> : n \in TickNotes}
          /\ last_bar = 1 + (MaxTick + 2 * BEAT_RESOL) \div BAR_RESOL

NextTick ==
    \/ QuantizeTick
    \/ QuantizeNotes

SpecTick == InitTick /\ [][NextTick]_vars

---------------------------------------------------------------------------
(* Properties                                                              *)

Abs(x) == IF x < 0 THEN 0 - x ELSE x

Kind(ev) == ev[1]

Count(evs, kind) == Cardinality({i \in 1..Len(evs) : Kind(evs[i]) = kind})

\* the least n with n * d >= a, for a >= 0 and d > 0
CeilDiv(a, d) == CHOOSE n \in 0..a : n * d >= a /\ (n = 0 \/ (n - 1) * d < a)

\* the multiple of TICK_RESOL nearest to t >= 0, the even multiple when two
\* are equally near
NearestGrid(t) ==
    CHOOSE q \in {k * TICK_RESOL : k \in 0..(t \div TICK_RESOL + 1)} :
        /\ Abs(q - t) * 2 <= TICK_RESOL
        /\ Abs(q - t) * 2 = TICK_RESOL => (q \div TICK_RESOL) % 2 = 0

\* C1: every tuple (start, dur, pitch) that quantize_notes returns has
\* start >= 0, start a multiple of 120, dur >= 120 and
\* start + dur <= last_bar * 1920, whatever the notes and last_bar.
C1_QuantizedOnGridInBounds ==
    pc = "build" =>
        \A i \in 1..Len(q_notes) :
            /\ q_notes[i][1] >= 0
            /\ q_notes[i][1] % 120 = 0
            /\ q_notes[i][2] >= 120
            /\ q_notes[i][1] + q_notes[i][2] <= last_bar * 1920

\* a note with a negative start is kept and a note that runs past the end of
\* the song is kept, clipped to the end of the song
C1_Witness ==
    /\ pc = "build"
    /\ Len(q_notes) = 2
    /\ \E i \in 1..2 : notes[i].start < 0
    /\ \E i \in 1..2 :
          /\ quantize_tick(notes[i].start) < last_bar * BAR_RESOL
          /\ quantize_tick(notes[i].end) > last_bar * BAR_RESOL
    /\ \E i \in 1..2 : q_notes[i][1] + q_notes[i][2] = last_bar * BAR_RESOL

\* C2: after load_melody_notes, every two adjacent notes of the returned
\* list satisfy earlier.end <= later.start.
C2_AdjacentNoOverlap ==
    pc # "load" =>
        \A i \in 1..(Len(notes) - 1) : notes[i].end <= notes[i + 1].start

\* the pass shortened the last but one note of a three-note melody
C2_Witness ==
    /\ pc = "estimate"
    /\ Len(notes) = 3
    /\ truncated >= 1
    /\ notes[2].end = notes[3].start
    /\ notes[2].start < notes[3].start
    /\ notes[3].start < notes[3].end

\* C9: after load_melody_notes no two notes of the returned list overlap,
\* adjacent or not: notes[i].end <= notes[j].start for every i < j.
C9_NoOverlapAtAll ==
    pc # "load" =>
        \A i \in 1..Len(notes) : \A j \in (i + 1)..Len(notes) :
            notes[i].end <= notes[j].start

\* two notes of a three-note melody were shortened, the first of them
\* to the start of a note that the third does not start before
C9_Witness ==
    /\ pc = "estimate"
    /\ Len(notes) = 3
    /\ truncated = 2
    /\ notes[1].end = notes[2].start
    /\ notes[1].start < notes[2].start
    /\ notes[3].end > notes[3].start

\* the notes that the events spell out: one <<bar, beat, octave, degree,
\* duration>> per Beat token, where bar counts the Bar_None tokens before it
RECURSIVE Decode(_, _, _)
Decode(evs, i, bar) ==
    IF i > Len(evs) THEN <<>>
    ELSE IF Kind(evs[i]) = "Bar_None" THEN Decode(evs, i + 1, bar + 1)
    ELSE IF Kind(evs[i]) = "Beat"
    THEN (IF /\ i + 3 <= Len(evs)
             /\ Kind(evs[i + 1]) = "Note_Octave"
             /\ Kind(evs[i + 2]) = "Note_Degree"
             /\ Kind(evs[i + 3]) = "Note_Duration"
          THEN << <<bar, evs[i][2], evs[i + 1][2], evs[i + 2][2], evs[i + 3][2]>> >>
          ELSE << <<"incomplete group">> >>)
         \o Decode(evs, i + 1, bar)
    ELSE Decode(evs, i + 1, bar)

\* no Note_* token stands outside a group
NoStrayTokens(evs) ==
    \A i \in 1..Len(evs) :
        /\ Kind(evs[i]) = "Note_Octave" => i > 1 /\ Kind(evs[i - 1]) = "Beat"
        /\ Kind(evs[i]) = "Note_Degree" => i > 1 /\ Kind(evs[i - 1]) = "Note_Octave"
        /\ Kind(evs[i]) = "Note_Duration" => i > 1 /\ Kind(evs[i - 1]) = "Note_Degree"

\* the group expected of a quantized note
ExpectedGroup(n, k) ==
    LET bar == CHOOSE b \in 0..n[1] :
                   b * BAR_RESOL <= n[1] /\ n[1] < (b + 1) * BAR_RESOL
    IN  <<bar, (n[1] - bar * BAR_RESOL) \div TICK_RESOL,
          pitch2degree(k, n[3])[1], pitch2degree(k, n[3])[2], n[2]>>

QuantizedList(Q) ==
    \A i \in 1..Len(Q) :
        /\ Q[i][1] >= 0
        /\ Q[i][1] % TICK_RESOL = 0
        /\ Q[i][2] > 0

\* C3: for a quantized list sorted by start, with starts >= 0 and durations
\* > 0, build_melody_events emits every note exactly once, in input order,
\* as Beat_<i>, Note_Octave, Note_Degree, Note_Duration_<dur> between the
\* Bar_None of bar floor(start / 1920) and the next one, with
\* i = (start - bar_start) / 120 in 0..15, and never takes its skip branch.
C3_EveryNoteOnceInItsBar ==
    (pc = "write" /\ QuantizedList(q_notes) /\ SortedByStart(q_notes)) =>
        /\ Decode(events, 1, 0 - 1) =
              [i \in 1..Len(q_notes) |-> ExpectedGroup(q_notes[i], Strip(key))]
        /\ NoStrayTokens(events)
        /\ \A i \in 1..Len(events) :
              Kind(events[i]) = "Beat" => events[i][2] \in 0..15
        /\ skipped = 0

\* two notes, the second one two bars after the first with an empty bar
\* between them
C3_Witness ==
    /\ pc = "write"
    /\ Len(q_notes) = 2
    /\ q_notes[1][1] < BAR_RESOL
    /\ q_notes[2][1] >= 2 * BAR_RESOL
    /\ Count(events, "Beat") = 2

\* C4: for a non-empty sorted quantized list of N notes the events hold
\* exactly N tokens of each kind Beat, Note_Octave, Note_Degree,
\* Note_Duration and exactly max(1, ceil(max(start + dur) / 1920)) Bar_None.
C4_TokenCounts ==
    (pc = "write" /\ q_notes # <<>> /\ QuantizedList(q_notes)
        /\ SortedByStart(q_notes)) =>
        /\ Count(events, "Beat") = Len(q_notes)
        /\ Count(events, "Note_Octave") = Len(q_notes)
        /\ Count(events, "Note_Degree") = Len(q_notes)
        /\ Count(events, "Note_Duration") = Len(q_notes)
        /\ Count(events, "Bar_None") =
              Max(1, CeilDiv(SeqMax([i \in 1..Len(q_notes) |->
                                        q_notes[i][1] + q_notes[i][2]]),
                             BAR_RESOL))

\* the last note starts in one bar and ends in the next: one more Bar_None
\* than bars that hold a note start
C4_Witness ==
    /\ pc = "write"
    /\ Len(q_notes) = 2
    /\ q_notes[2][1] < BAR_RESOL
    /\ q_notes[2][1] + q_notes[2][2] > BAR_RESOL
    /\ Count(events, "Bar_None") = 2

ValidKeys == Range(MAJOR_KEY) \cup Range(MINOR_KEY)

\* C5: a run of main() that fails writes no output file: with no track, with
\* no note in the chosen track or with a key outside MAJOR_KEY and MINOR_KEY
\* the run ends in an error before write_events_txt, and the unsupported-key
\* error lists every valid key.
C5_FailureWritesNothing ==
    /\ pc = "error" => out_file = NoFile
    /\ out_file # NoFile => pc = "done" /\ err = NoError
    /\ (pc # "load" /\ midi.instruments = <<>>) => pc = "error"
    /\ (pc # "load" /\ midi.instruments # <<>>
          /\ midi.instruments[ChooseTrack(midi.instruments)].notes = <<>>)
         => pc = "error"
    /\ Strip(key) \notin ValidKeys => pc \notin {"write", "done"}
    /\ (pc = "error" /\ err.what = "Unsupported key") =>
          ValidKeys \subseteq Range(err.use_one_of)

\* the run got as far as build_melody_events and failed there on the key
C5_Witness ==
    /\ pc = "error"
    /\ err.what = "Unsupported key"
    /\ notes # <<>>
    /\ key = <<"Z">>
    /\ out_file = NoFile

\* C6: quantize_tick(t) is 0 for t < 0 and for t >= 0 a non-negative
\* multiple q of 120 with |q - t| <= 60; a tick half-way between two grid
\* points always goes to the even multiple of 120; note starts and note ends
\* are rounded by the same rule.
C6_NearestGridTick ==
    /\ pc = "quantize_tick_done" =>
          /\ tick < 0 => q_tick = 0
          /\ tick >= 0 =>
                /\ q_tick >= 0
                /\ q_tick % 120 = 0
                /\ Abs(q_tick - tick) <= 60
                /\ tick % 120 = 60 => (q_tick \div 120) % 2 = 0
    /\ (pc = "build" /\ Len(notes) = 1) =>
          /\ Len(q_notes) = 1
          /\ q_notes[1][1] = NearestGrid(Max(0, notes[1].start))
          /\ NearestGrid(Max(0, notes[1].end)) > q_notes[1][1] =>
                q_notes[1][1] + q_notes[1][2] = NearestGrid(Max(0, notes[1].end))

\* a tick half-way between two grid points that is rounded up
C6_Witness ==
    /\ pc = "quantize_tick_done"
    /\ tick % 120 = 60
    /\ q_tick = tick + 60

\* C7: quantize_notes, given the notes (start, start + dur, pitch) of a list
\* Q that is sorted by (start, pitch), grid-aligned and within last_bar,
\* returns exactly Q.
C7_Idempotent ==
    (/\ pc = "build"
     /\ SortedByStartPitch(AsQuantized(notes))
     /\ InBounds(AsQuantized(notes), last_bar)
     /\ \A i \in 1..Len(notes) :
           /\ notes[i].start >= 0
           /\ notes[i].start % 120 = 0
           /\ notes[i].end % 120 = 0
           /\ notes[i].end - notes[i].start >= 120)
    => q_notes = AsQuantized(notes)

\* two notes on the same start, the second ending on the end of the song
C7_Witness ==
    /\ pc = "build"
    /\ Len(notes) = 2
    /\ notes[1].start = notes[2].start
    /\ notes[1].pitch < notes[2].pitch
    /\ notes[2].end = last_bar * BAR_RESOL
    /\ Len(q_notes) = 2

Scenario4 ==
    /\ pc = "build"
    /\ Len(notes) = 1
    /\ notes[1].start = 3800
    /\ notes[1].end = 4200
    /\ last_bar = 2

\* C8, as stated: the note (3800, 4200) with last_bar = 2 is kept with
\* duration 40.
C8_KeptWithDuration40 ==
    Scenario4 => Len(q_notes) = 1 /\ q_notes[1][2] = 40

\* C8, amended: the note (3800, 4200) with last_bar = 2 is dropped, because
\* its start is rounded to 3840, the end of the song.
C8_Dropped ==
    Scenario4 => q_notes = <<>> /\ quantize_tick(notes[1].start) = 2 * BAR_RESOL

C8_Witness ==
    Scenario4 /\ q_notes = <<>>

\* C10: in a run of main() quantize_notes drops no note: q_notes has as many
\* entries as the melody has notes, and the events hold one group per note
\* and at least one Bar_None.
C10_NoNoteDropped ==
    pc \in {"write", "done"} =>
          /\ Len(q_notes) = Len(notes)
          /\ Count(events, "Beat") = Len(notes)
          /\ Count(events, "Note_Octave") = Len(notes)
          /\ Count(events, "Note_Degree") = Len(notes)
          /\ Count(events, "Note_Duration") = Len(notes)
          /\ Count(events, "Bar_None") >= 1

===========================================================================
